---- MODULE Spec2Model ----
(***************************************************************************)
(* Model of the CSV data viewer (CsvDataViewer.tsx) and of the page that   *)
(* hosts it (CsvViewer.tsx).  Strings are sequences of one-character       *)
(* strings so that toLowerCase, includes and localeCompare are computed.   *)
(***************************************************************************)
EXTENDS Integers, Sequences, FiniteSets, TLC

VARIABLES rows, filterText, sortConfig, currentPage,
          visibleColumns, columnOrder, selectedRows,
          editingCell, editValue, inputFocused, editSeq, updateCalls,
          files, csvRows, calls,
          csvFiles, deleteDialogOpen, fileToDelete, toasts, confirms

viewVars == <<filterText, sortConfig, currentPage>>
colVars  == <<visibleColumns, columnOrder>>
editVars == <<editingCell, editValue, inputFocused, editSeq, updateCalls>>
\* the stored entities and the operations in flight at the server
serverVars == <<files, csvRows, calls>>
\* the state of the CsvManager page and its CsvFileList
managerVars == <<csvFiles, deleteDialogOpen, fileToDelete, toasts, confirms>>
\* the state of the CsvDataViewer
viewerVars == <<rows, filterText, sortConfig, currentPage,
                visibleColumns, columnOrder, selectedRows,
                editingCell, editValue, inputFocused, editSeq, updateCalls>>
vars == <<rows, filterText, sortConfig, currentPage,
          visibleColumns, columnOrder, selectedRows,
          editingCell, editValue, inputFocused, editSeq, updateCalls,
          files, csvRows, calls,
          csvFiles, deleteDialogOpen, fileToDelete, toasts, confirms>>

----------------------------------------------------------------------------
(* Bounds of the model.                                                    *)

\* rows of the largest dataset handed to the viewer in Spec
MaxRows == 21
\* rows of the exhaustively enumerated datasets of SpecPipeline
MaxSmallRows == 2
\* edits begun in one behaviour of SpecEdit
MaxEdits == 2
\* row-update invocations in one behaviour of SpecEdit
MaxCalls == 2
\* elements columnOrder may grow by in one behaviour of SpecColumns
MaxExtra == 1
\* parts of the state that differ from the initial state, in SpecCommands
MaxChanged == 2
\* operations invoked at the server in one behaviour
MaxOps == 3
\* deletions confirmed on the manager page in one behaviour
MaxConfirms == 2

----------------------------------------------------------------------------
(* Plain helpers.                                                          *)

Min(a, b) == IF a < b THEN a ELSE b
Max(a, b) == IF a > b THEN a ELSE b

\* the JavaScript null
null == [isNull |-> TRUE]

\* file.columnHeaders of the file shown
columnHeaders == <<"name", "age", "city">>

Range(s) == {s[i] : i \in 1..Len(s)}

\* the characters strings are made of
Chars == {"a", "A", "b", "B"}

\* String.prototype.toLowerCase, character by character
ToLowerChar(c) == IF c = "A" THEN "a" ELSE IF c = "B" THEN "b" ELSE c

toLowerCase(s) == [i \in 1..Len(s) |-> ToLowerChar(s[i])]

\* String.prototype.includes: t occurs in s as a contiguous substring
includes(s, t) ==
    \E i \in 0..(Len(s) - Len(t)) :
        \A k \in 1..Len(t) : s[i + k] = t[k]

\* primary collation weight of a letter, and its case
CharRank(c) == IF ToLowerChar(c) = "a" THEN 1 ELSE 2
IsUpper(c) == c \in {"A", "B"}

RECURSIVE PrimaryCmp(_, _)
PrimaryCmp(s, t) ==
    IF s = <<>> /\ t = <<>> THEN 0
    ELSE IF s = <<>> THEN -1
    ELSE IF t = <<>> THEN 1
    ELSE IF CharRank(Head(s)) < CharRank(Head(t)) THEN -1
    ELSE IF CharRank(Head(s)) > CharRank(Head(t)) THEN 1
    ELSE PrimaryCmp(Tail(s), Tail(t))

\* strings of equal primary weights: lower case sorts before upper case
RECURSIVE CaseCmp(_, _)
CaseCmp(s, t) ==
    IF s = <<>> \/ t = <<>> THEN 0
    ELSE IF IsUpper(Head(s)) = IsUpper(Head(t)) THEN CaseCmp(Tail(s), Tail(t))
    ELSE IF IsUpper(Head(t)) THEN -1
    ELSE 1

\* String.prototype.localeCompare: negative, zero or positive
localeCompare(s, t) ==
    IF PrimaryCmp(s, t) # 0 THEN PrimaryCmp(s, t) ELSE CaseCmp(s, t)

\* Array.prototype.slice(start, end), negative indices included
slice(s, start, end) ==
    LET len  == Len(s)
        from == IF start < 0 THEN Max(len + start, 0) ELSE Min(start, len)
        to   == IF end < 0 THEN Max(len + end, 0) ELSE Min(end, len)
    IN IF from >= to THEN <<>> ELSE SubSeq(s, from + 1, to)

\* Math.ceil(n / d) for n >= 0, d > 0
CeilDiv(n, d) == (n + d - 1) \div d

\* Array.prototype.filter
RECURSIVE FilterSeq(_, _)
FilterSeq(s, keep) ==
    IF s = <<>> THEN <<>>
    ELSE IF Head(s) \in keep THEN <<Head(s)>> \o FilterSeq(Tail(s), keep)
    ELSE FilterSeq(Tail(s), keep)

----------------------------------------------------------------------------
(* The derivation pipeline: filter, sort, paginate.                        *)

rowsPerPage == 10

\* the characters of a column name
KeyChars(k) ==
    IF k = "name" THEN <<"n", "a", "m", "e">>
    ELSE IF k = "age" THEN <<"a", "g", "e">>
    ELSE <<"c", "i", "t", "y">>

RowMatches_Mut(row, text) ==
    \E k \in DOMAIN row.rowData :
        \/ includes(toLowerCase(row.rowData[k]), toLowerCase(text))
        \/ includes(toLowerCase(KeyChars(k)), toLowerCase(text))

\* Object.values(rowData).some(value => value.toLowerCase().includes(...))
RowMatches(row, text) ==
    \E k \in DOMAIN row.rowData :
        includes(toLowerCase(row.rowData[k]), toLowerCase(text))

FilterRows(rs, text) ==
    FilterSeq(rs, {r \in Range(rs) : RowMatches(r, text)})

filteredRows == FilterRows(rows, filterText)

\* (rowData)[key] || ''
ValueOf(row, key) ==
    IF key \in DOMAIN row.rowData THEN row.rowData[key] ELSE <<>>

\* the comparator handed to Array.prototype.sort
CompareRows(a, b, cfg) ==
    IF cfg.direction = "asc"
    THEN localeCompare(ValueOf(a, cfg.key), ValueOf(b, cfg.key))
    ELSE localeCompare(ValueOf(b, cfg.key), ValueOf(a, cfg.key))

RECURSIVE InsertRow_Mut(_, _, _)
InsertRow_Mut(sorted, x, cfg) ==
    IF sorted = <<>> THEN <<x>>
    ELSE IF CompareRows(x, sorted[Len(sorted)], cfg) > 0
         THEN Append(sorted, x)
         ELSE Append(InsertRow_Mut(SubSeq(sorted, 1, Len(sorted) - 1), x, cfg),
                     sorted[Len(sorted)])

\* stable insertion of x into a sequence sorted under the comparator
RECURSIVE InsertRow(_, _, _)
InsertRow(sorted, x, cfg) ==
    IF sorted = <<>> THEN <<x>>
    ELSE IF CompareRows(x, sorted[Len(sorted)], cfg) >= 0
         THEN Append(sorted, x)
         ELSE Append(InsertRow(SubSeq(sorted, 1, Len(sorted) - 1), x, cfg),
                     sorted[Len(sorted)])

\* Array.prototype.sort with a comparator (stable since ES2019)
RECURSIVE SortRows(_, _)
SortRows(rs, cfg) ==
    IF rs = <<>> THEN <<>>
    ELSE InsertRow(SortRows(SubSeq(rs, 1, Len(rs) - 1), cfg), rs[Len(rs)], cfg)

Reverse(s) == [i \in 1..Len(s) |-> s[Len(s) + 1 - i]]

ApplySort_Mut(rs, cfg) ==
    IF cfg = null THEN rs
    ELSE IF cfg.direction = "asc" THEN SortRows(rs, cfg)
    ELSE Reverse(SortRows(rs, [cfg EXCEPT !.direction = "asc"]))

\* sortedRows: the filtered rows themselves when sortConfig is null
ApplySort(rs, cfg) == IF cfg = null THEN rs ELSE SortRows(rs, cfg)

sortedRows == ApplySort(filteredRows, sortConfig)

PageSlice_Mut(rs, page) ==
    LET start == (page - 1) * rowsPerPage
    IN slice(rs, start, start + rowsPerPage - 1)

PageSlice(rs, page) ==
    LET start == (page - 1) * rowsPerPage
    IN slice(rs, start, start + rowsPerPage)

paginatedRows == PageSlice(sortedRows, currentPage)

TotalPagesOf(rs) == CeilDiv(Len(rs), rowsPerPage)

totalPages == TotalPagesOf(sortedRows)

renderedColumns_Mut == FilterSeq(visibleColumns, Range(columnOrder))

\* the columns rendered as headers and cells
renderedColumns == FilterSeq(columnOrder, Range(visibleColumns))

----------------------------------------------------------------------------
(* Datasets handed to the viewer.                                          *)

NameValues == <<(<<"a">>), (<<"A", "b">>), (<<"b">>)>>
AgeValues == <<(<<"b">>), (<<"a">>)>>

\* row i of a generated dataset: every row has a name, even rows an age;
\* v shifts the values (the same file after rows were updated)
MkRow(i, v) ==
    [id |-> i,
     rowData |-> IF i % 2 = 0
                 THEN [k \in {"name", "age"} |->
                          IF k = "name" THEN NameValues[((i + v) % 3) + 1]
                          ELSE AgeValues[((i \div 2) % 2) + 1]]
                 ELSE [k \in {"name"} |-> NameValues[((i + 2 * v) % 3) + 1]]]

MkRows(n, v) == [i \in 1..n |-> MkRow(i, v)]

\* an uploaded file has at least one row (uploadCsvFile rejects an empty one)
DatasetSizes == {1, rowsPerPage + 1, MaxRows}

Datasets == {MkRows(n, v) : n \in DatasetSizes, v \in {0, 1}}

FilterTexts == {<<>>, <<"a">>, <<"B">>, <<"a", "b">>, <<"b", "b">>}

----------------------------------------------------------------------------
(* State after construction (useState initial values).                     *)

\* the store before any upload, and no operation in flight
InitServer ==
    /\ files = {}
    /\ csvRows = {}
    /\ calls = <<>>

\* the manager page before its query answered, the dialog closed
InitManager ==
    /\ csvFiles = {}
    /\ deleteDialogOpen = FALSE
    /\ fileToDelete = null
    /\ toasts = <<>>
    /\ confirms = <<>>

InitState ==
    /\ InitServer
    /\ InitManager
    /\ filterText = <<>>
    /\ sortConfig = null
    /\ currentPage = 1
    /\ visibleColumns = columnHeaders
    /\ columnOrder = columnHeaders
    /\ selectedRows = {}
    /\ editingCell = null
    /\ editValue = <<>>
    /\ inputFocused = FALSE
    /\ editSeq = 0
    /\ updateCalls = <<>>

Init ==
    /\ rows \in Datasets
    /\ InitState

----------------------------------------------------------------------------
(* The edit input: rendered for the cell being edited when its row is on   *)
(* the current page and its column is shown; focused on mount (autoFocus). *)

InputRenderedFor(cell, page, columns) ==
    /\ cell # null
    /\ \E i \in 1..Len(page) : page[i].id = cell.rowId
    /\ cell.column \in Range(columns)

InputRendered == InputRenderedFor(editingCell, paginatedRows, renderedColumns)

\* InputRendered in the state after the step, written over the primed
\* variables so that the page is derived once
InputRenderedNext ==
    InputRenderedFor(editingCell',
                     PageSlice(ApplySort(FilterRows(rows', filterText'),
                                         sortConfig'), currentPage'),
                     FilterSeq(columnOrder', Range(visibleColumns')))

\* focus of the edit input after a re-render: lost when the input unmounts,
\* taken when an input mounts, kept otherwise
FocusAfter ==
    IF ~ InputRenderedNext THEN FALSE
    ELSE IF InputRendered /\ editingCell' = editingCell THEN inputFocused
    ELSE TRUE

\* the user acts on a control other than the edit input only after focus
\* has left the edit input
FocusElsewhere == ~ (InputRendered /\ inputFocused)

editUnchanged ==
    /\ UNCHANGED <<editingCell, editValue, editSeq, updateCalls>>
    /\ inputFocused' = FocusAfter

----------------------------------------------------------------------------
(* View commands.                                                          *)

\* the filter input's onChange
SetFilterText(t) ==
    /\ FocusElsewhere
    /\ t # filterText
    /\ filterText' = t
    /\ UNCHANGED <<serverVars, managerVars, rows, sortConfig, currentPage, colVars, selectedRows>>
    /\ editUnchanged

handleSort_Mut(column) ==
    /\ FocusElsewhere
    /\ column \in Range(renderedColumns)
    /\ sortConfig' =
          [key |-> column,
           direction |-> IF sortConfig # null /\ sortConfig.direction = "asc"
                         THEN "desc" ELSE "asc"]
    /\ UNCHANGED <<serverVars, managerVars, rows, filterText, currentPage, colVars, selectedRows>>
    /\ editUnchanged

handleSort(column) ==
    /\ FocusElsewhere
    /\ column \in Range(renderedColumns)
    /\ sortConfig' =
          [key |-> column,
           direction |-> IF sortConfig # null /\ sortConfig.key = column
                            /\ sortConfig.direction = "asc"
                         THEN "desc" ELSE "asc"]
    /\ UNCHANGED <<serverVars, managerVars, rows, filterText, currentPage, colVars, selectedRows>>
    /\ editUnchanged

\* the Previous button's onClick; a disabled button delivers no click
PreviousPage ==
    /\ FocusElsewhere
    /\ currentPage # 1
    /\ currentPage' = Max(1, currentPage - 1)
    /\ UNCHANGED <<serverVars, managerVars, rows, filterText, sortConfig, colVars, selectedRows>>
    /\ editUnchanged

\* the Next button's onClick; a disabled button delivers no click
NextPage ==
    /\ FocusElsewhere
    /\ currentPage # totalPages
    /\ currentPage' = Min(totalPages, currentPage + 1)
    /\ UNCHANGED <<serverVars, managerVars, rows, filterText, sortConfig, colVars, selectedRows>>
    /\ editUnchanged

\* the hosting page hands over the refetched rows of the same file: the row
\* identities are the same, the field values may differ
ReplaceDataset(D) ==
    /\ rows' \in D
    /\ rows' # rows
    /\ Len(rows') = Len(rows)
    /\ UNCHANGED <<serverVars, managerVars, viewVars, colVars, selectedRows>>
    /\ editUnchanged

Next ==
    \/ \E t \in FilterTexts : SetFilterText(t)
    \/ \E c \in Range(columnHeaders) : handleSort(c)
    \/ PreviousPage
    \/ NextPage
    \/ ReplaceDataset(Datasets)

Spec == Init /\ [][Next]_vars

----------------------------------------------------------------------------
(* Column visibility and order.                                            *)

\* the JavaScript undefined, as an element of a column array
undefined == "undefined"

\* the start position Array.prototype.splice works at
SpliceStart(len, start) ==
    IF start < 0 THEN Max(len + start, 0) ELSE Min(start, len)

\* the elements splice(start, 1) deletes: one, or none at the end
SpliceDeleted(s, start) ==
    LET at == SpliceStart(Len(s), start)
    IN IF at < Len(s) THEN <<s[at + 1]>> ELSE <<>>

\* the array after splice(start, 1)
SpliceRemove(s, start) ==
    LET at == SpliceStart(Len(s), start)
    IN IF at < Len(s) THEN SubSeq(s, 1, at) \o SubSeq(s, at + 2, Len(s)) ELSE s

\* the array after splice(start, 0, item)
SpliceInsert(s, start, item) ==
    LET at == SpliceStart(Len(s), start)
    IN SubSeq(s, 1, at) \o <<item>> \o SubSeq(s, at + 1, Len(s))

\* const [removed] = newOrder.splice(dragIndex, 1);
\* newOrder.splice(dropIndex, 0, removed)
Reordered(order, dragIndex, dropIndex) ==
    LET deleted == SpliceDeleted(order, dragIndex)
        removed == IF deleted = <<>> THEN undefined ELSE deleted[1]
    IN SpliceInsert(SpliceRemove(order, dragIndex), dropIndex, removed)

handleColumnToggle_Mut(column) ==
    /\ FocusElsewhere
    /\ column \in Range(columnOrder)
    /\ visibleColumns' =
          IF column \in Range(visibleColumns)
          THEN FilterSeq(visibleColumns, {column})
          ELSE Append(visibleColumns, column)
    /\ UNCHANGED <<serverVars, managerVars, rows, viewVars, columnOrder, selectedRows>>
    /\ editUnchanged

\* the checkbox of a column in the Columns control
handleColumnToggle(column) ==
    /\ FocusElsewhere
    /\ column \in Range(columnOrder)
    /\ visibleColumns' =
          IF column \in Range(visibleColumns)
          THEN FilterSeq(visibleColumns, Range(visibleColumns) \ {column})
          ELSE Append(visibleColumns, column)
    /\ UNCHANGED <<serverVars, managerVars, rows, viewVars, columnOrder, selectedRows>>
    /\ editUnchanged

\* exchanges the two positions instead of moving one element
handleColumnReorder_Mut(dragIndex, dropIndex) ==
    /\ Len(Reordered(columnOrder, dragIndex, dropIndex))
          <= Len(columnHeaders) + MaxExtra
    /\ columnOrder' =
          IF dragIndex \in 0..(Len(columnOrder) - 1)
             /\ dropIndex \in 0..(Len(columnOrder) - 1)
          THEN [columnOrder EXCEPT ![dragIndex + 1] = columnOrder[dropIndex + 1],
                                   ![dropIndex + 1] = columnOrder[dragIndex + 1]]
          ELSE Reordered(columnOrder, dragIndex, dropIndex)
    /\ UNCHANGED <<serverVars, managerVars, rows, viewVars, visibleColumns, selectedRows>>
    /\ editUnchanged

handleColumnReorder(dragIndex, dropIndex) ==
    /\ Len(Reordered(columnOrder, dragIndex, dropIndex))
          <= Len(columnHeaders) + MaxExtra
    /\ columnOrder' = Reordered(columnOrder, dragIndex, dropIndex)
    /\ UNCHANGED <<serverVars, managerVars, rows, viewVars, visibleColumns, selectedRows>>
    /\ editUnchanged

\* index arguments, from one below the first position to past the end
ReorderIndices == (0 - 1)..(Len(columnHeaders) + MaxExtra)

----------------------------------------------------------------------------
(* Cell editing (handleCellEdit, handleCellSave) and the row update.       *)

\* rows.find(r => r.id === id): the sequence of matches, first one used
FindRow(id) == FilterSeq(rows, {r \in Range(rows) : r.id = id})

\* { ...rowData }; newData[column] = value
Overlay(rowData, column, value) ==
    [k \in DOMAIN rowData \cup {column} |->
        IF k = column THEN value ELSE rowData[k]]

\* hands the raw field to handleCellEdit, without the `|| ''`
ClickCell_Mut(i, column, inInput) ==
    /\ i \in 1..Len(paginatedRows)
    /\ column \in Range(renderedColumns)
    /\ editSeq < MaxEdits
    /\ LET row == paginatedRows[i]
           cell == [rowId |-> row.id, column |-> column]
       IN /\ IF inInput THEN InputRendered /\ editingCell = cell
                        ELSE FocusElsewhere
          /\ editingCell' = cell
          /\ editValue' = IF column \in DOMAIN row.rowData
                          THEN row.rowData[column] ELSE <<"u">>
          /\ editSeq' = editSeq + 1
          /\ UNCHANGED <<serverVars, managerVars, rows, viewVars, colVars, selectedRows, updateCalls>>
          /\ inputFocused' = IF inInput THEN TRUE ELSE FocusAfter

\* the cell's onClick: handleCellEdit(row.id, column, value); a click inside
\* the edit input bubbles to its cell and gives the input the focus
ClickCell(i, column, inInput) ==
    /\ i \in 1..Len(paginatedRows)
    /\ column \in Range(renderedColumns)
    /\ editSeq < MaxEdits
    /\ LET row == paginatedRows[i]
           cell == [rowId |-> row.id, column |-> column]
       IN /\ IF inInput THEN InputRendered /\ editingCell = cell
                        ELSE FocusElsewhere
          /\ editingCell' = cell
          /\ editValue' = ValueOf(row, column)
          /\ editSeq' = editSeq + 1
          /\ UNCHANGED <<serverVars, managerVars, rows, viewVars, colVars, selectedRows, updateCalls>>
          /\ inputFocused' = IF inInput THEN TRUE ELSE FocusAfter

\* the edit input's onChange
TypeValue(v) ==
    /\ InputRendered /\ inputFocused
    /\ v # editValue
    /\ editValue' = v
    /\ UNCHANGED <<serverVars, managerVars, rows, viewVars, colVars, selectedRows, editingCell,
                   inputFocused, editSeq, updateCalls>>

\* handleCellSave up to its await: onRowUpdate(rowId, newData) is invoked
handleCellSave ==
    IF editingCell = null \/ FindRow(editingCell.rowId) = <<>>
    THEN UNCHANGED updateCalls
    ELSE /\ Len(updateCalls) < MaxCalls
         /\ updateCalls' =
               Append(updateCalls,
                      [edit |-> editSeq,
                       rowId |-> editingCell.rowId,
                       column |-> editingCell.column,
                       newData |-> Overlay(FindRow(editingCell.rowId)[1].rowData,
                                           editingCell.column, editValue),
                       status |-> "pending"])

\* the edit input's onKeyDown with Enter
PressEnter ==
    /\ InputRendered /\ inputFocused
    /\ handleCellSave
    /\ UNCHANGED <<serverVars, managerVars, rows, viewVars, colVars, selectedRows, editingCell,
                   editValue, inputFocused, editSeq>>

\* the edit input's onBlur: the focus leaves the input
BlurInput ==
    /\ InputRendered /\ inputFocused
    /\ handleCellSave
    /\ inputFocused' = FALSE
    /\ UNCHANGED <<serverVars, managerVars, rows, viewVars, colVars, selectedRows, editingCell,
                   editValue, editSeq>>

\* writes the saved field map into the local rows when the update resolved
CompleteUpdate_Mut(n, ok) ==
    /\ n \in 1..Len(updateCalls)
    /\ updateCalls[n].status = "pending"
    /\ updateCalls' = [updateCalls EXCEPT ![n].status = IF ok THEN "ok" ELSE "failed"]
    /\ editingCell' = IF ok THEN null ELSE editingCell
    /\ rows' = [i \in 1..Len(rows) |->
                   IF ok /\ rows[i].id = updateCalls[n].rowId
                   THEN [rows[i] EXCEPT !.rowData = updateCalls[n].newData]
                   ELSE rows[i]]
    /\ UNCHANGED <<serverVars, managerVars, viewVars, colVars, selectedRows, editValue, editSeq>>
    /\ inputFocused' = FocusAfter

\* the awaited onRowUpdate of call n settles: handleCellSave resumes with
\* setEditingCell(null) when it resolved, and is abandoned when it rejected
CompleteUpdate(n, ok) ==
    /\ n \in 1..Len(updateCalls)
    /\ updateCalls[n].status = "pending"
    /\ updateCalls' = [updateCalls EXCEPT ![n].status = IF ok THEN "ok" ELSE "failed"]
    /\ editingCell' = IF ok THEN null ELSE editingCell
    /\ UNCHANGED <<serverVars, managerVars, rows, viewVars, colVars, selectedRows, editValue, editSeq>>
    /\ inputFocused' = FocusAfter

\* the hosting page refetches the file after a successful update and hands
\* over rows in which the updated row carries the stored field map
RefetchAfterUpdate(n) ==
    /\ n \in 1..Len(updateCalls)
    /\ updateCalls[n].status = "ok"
    /\ rows' = [i \in 1..Len(rows) |->
                   IF rows[i].id = updateCalls[n].rowId
                   THEN [rows[i] EXCEPT !.rowData = updateCalls[n].newData]
                   ELSE rows[i]]
    /\ rows' # rows
    /\ UNCHANGED <<serverVars, managerVars, viewVars, colVars, selectedRows>>
    /\ editUnchanged

\* the dataset first shown in SpecEdit: its row has a name and no age
EditRows ==
    <<[id |-> 1, rowData |-> [k \in {"name"} |-> <<"a">>]]>>

TypedValues == {<<"B">>}

EditFilterTexts == {<<>>, <<"B">>}

InitEdit ==
    /\ rows = EditRows
    /\ InitState

NextEdit ==
    \/ \E i \in 1..Len(rows), c \in Range(columnHeaders), b \in BOOLEAN :
          ClickCell(i, c, b)
    \/ \E v \in TypedValues : TypeValue(v)
    \/ PressEnter
    \/ BlurInput
    \/ \E n \in 1..MaxCalls, ok \in BOOLEAN : CompleteUpdate(n, ok)
    \/ \E n \in 1..MaxCalls : RefetchAfterUpdate(n)
    \/ \E t \in EditFilterTexts : SetFilterText(t)

SpecEdit == InitEdit /\ [][NextEdit]_vars

----------------------------------------------------------------------------
(* The column commands on their own.                                       *)

NextColumns ==
    \/ \E c \in Range(columnHeaders) \cup {undefined} : handleColumnToggle(c)
    \/ \E d \in ReorderIndices, p \in ReorderIndices : handleColumnReorder(d, p)

SpecColumns == InitEdit /\ [][NextColumns]_vars

----------------------------------------------------------------------------
(* Row selection.                                                          *)

\* paginatedRows.map(row => row.id)
PageIds == {paginatedRows[i].id : i \in 1..Len(paginatedRows)}

\* the checked property of the select-all checkbox
SelectAllChecked == Cardinality(selectedRows) = Len(paginatedRows)

\* the checkbox of a row on the page: its onChange gets the flipped state
RowCheckboxChange(i) ==
    /\ FocusElsewhere
    /\ i \in 1..Len(paginatedRows)
    /\ selectedRows' =
          IF paginatedRows[i].id \notin selectedRows
          THEN selectedRows \cup {paginatedRows[i].id}
          ELSE selectedRows \ {paginatedRows[i].id}
    /\ UNCHANGED <<serverVars, managerVars, rows, viewVars, colVars>>
    /\ editUnchanged

\* the select-all checkbox: its onChange gets the flipped checked state
SelectAllChange ==
    /\ FocusElsewhere
    /\ selectedRows' = IF ~ SelectAllChecked THEN PageIds ELSE {}
    /\ UNCHANGED <<serverVars, managerVars, rows, viewVars, colVars>>
    /\ editUnchanged

\* the dataset of SpecSelect: one full page and one more row
InitSelect ==
    /\ rows = MkRows(rowsPerPage + 1, 0)
    /\ InitState

NextSelect ==
    \/ \E i \in 1..rowsPerPage : RowCheckboxChange(i)
    \/ SelectAllChange
    \/ PreviousPage
    \/ NextPage

SpecSelect == InitSelect /\ [][NextSelect]_vars

----------------------------------------------------------------------------
(* All commands together, on a two-row dataset, explored from the states   *)
(* in which at most MaxChanged parts differ from the initial state.        *)

\* the dataset first shown in SpecCommands: sorting by name reorders it,
\* and its first row has no age
CommandRows ==
    <<[id |-> 1, rowData |-> [k \in {"name"} |-> <<"b">>]],
      [id |-> 2, rowData |-> [k \in {"name", "age"} |-> <<"a">>]]>>

\* a text that matches both rows' names in part, and one that matches no row
CommandFilterTexts == {<<>>, <<"B">>, <<"a", "b">>}

\* the positions of the columns and the one past the last
CommandReorderIndices == 0..Len(columnHeaders)

B2N(b) == IF b THEN 1 ELSE 0

\* the number of parts of the state that differ from the initial state

Changed ==
    B2N(filterText # <<>>) + B2N(sortConfig # null) + B2N(currentPage # 1)
    + B2N(visibleColumns # columnHeaders) + B2N(columnOrder # columnHeaders)
    + B2N(selectedRows # {}) + editSeq + Len(updateCalls)

\* a step of A that stays within MaxChanged
Within(A) == A /\ Changed' <= MaxChanged

InitCommands ==
    /\ rows = CommandRows
    /\ InitState

NextCommands ==
    \/ \E t \in CommandFilterTexts : Within(SetFilterText(t))
    \/ \E c \in Range(columnHeaders) : Within(handleSort(c))
    \/ Within(PreviousPage)
    \/ Within(NextPage)
    \/ \E c \in Range(columnHeaders) : Within(handleColumnToggle(c))
    \/ \E d \in CommandReorderIndices, p \in CommandReorderIndices :
          Within(handleColumnReorder(d, p))
    \/ \E i \in 1..Len(rows) : Within(RowCheckboxChange(i))
    \/ Within(SelectAllChange)
    \/ \E i \in 1..Len(rows), c \in Range(columnHeaders), b \in BOOLEAN :
          Within(ClickCell(i, c, b))
    \/ \E v \in TypedValues : Within(TypeValue(v))
    \/ Within(PressEnter)
    \/ Within(BlurInput)
    \/ \E n \in 1..MaxCalls, ok \in BOOLEAN : Within(CompleteUpdate(n, ok))
    \/ \E n \in 1..MaxCalls : Within(RefetchAfterUpdate(n))

SpecCommands == InitCommands /\ [][NextCommands]_vars

----------------------------------------------------------------------------
(* The server operations.  files and csvRows are the stored CsvFile and    *)
(* CsvRow entities.  calls holds every operation invoked, in the order of  *)
(* invocation: its arguments, the database call it is waiting for (pc),    *)
(* the number of database calls it has made (accesses) and its outcome.    *)
(* Each database call is one atomic step; the operations interleave at     *)
(* their awaits.                                                           *)

\* the users, and context.user of a request without a session
Users == {"u1", "u2"}
noUser == "none"
Callers == Users \cup {noUser}

\* the parsed records of the uploaded contents: none, or one record
UploadedRecords == {<<>>, <<[k \in {"name"} |-> <<"a">>]>>}

\* the newData sent by updateCsvRow
UpdatedData == [k \in {"name"} |-> <<"B">>]

\* the id of the file created by call n, and of its row of index k
FileIdOf(n) == n
RowIdOf(n, k) == <<n, k>>


\* throw new Error(message)
Failed(message) == [ok |-> FALSE, error |-> message]
\* the value an operation resolves with
Returned(value) == [ok |-> TRUE, value |-> value]
\* the outcome of an operation still running
pending == [ok |-> FALSE, error |-> "pending"]

\* the rejection of Prisma's update / delete when no record matches
RecordNotFound == "Record to update or delete does not exist"

FileById(id) == {f \in files : f.id = id}
RowById(id) == {r \in csvRows : r.id = id}
RowsOfFile(id) == {r \in csvRows : r.csvFileId = id}

\* call n goes on: it has made one more database call
Proceed(n, nextPc, outcome) ==
    calls' = [calls EXCEPT ![n].pc = nextPc,
                           ![n].accesses = calls[n].accesses + 1,
                           ![n].outcome = outcome]

Waiting(n, pc) ==
    /\ n \in 1..Len(calls)
    /\ calls[n].pc = pc

frameOfServer == UNCHANGED <<viewerVars, managerVars>>

\* deleteCsvFile without its `if (!context.user)` check
Invoke_Mut(op, user, arg) ==
    /\ Len(calls) < MaxOps
    /\ LET call == [op |-> op, user |-> user, arg |-> arg, accesses |-> 0]
           stop(message) == call @@ [pc |-> "done", outcome |-> Failed(message)]
           go(pc) == call @@ [pc |-> pc, outcome |-> pending]
       IN calls' = Append(calls,
             IF op = "deleteCsvFile" THEN go("findUnique")
             ELSE IF user = noUser THEN stop("Not authorized")
             ELSE IF op = "getCsvFiles" THEN go("findMany")
             ELSE IF op = "uploadCsvFile"
                  THEN IF Len(arg) = 0 THEN stop("CSV file is empty")
                       ELSE IF DOMAIN arg[1] = {}
                            THEN stop("CSV file has no columns")
                            ELSE go("create")
             ELSE go("findUnique"))
    /\ UNCHANGED <<files, csvRows>>
    /\ frameOfServer

\* an operation from its invocation up to its first database call
NewCall(op, user, arg) ==
    LET call == [op |-> op, user |-> user, arg |-> arg, accesses |-> 0]
        stop(message) == call @@ [pc |-> "done", outcome |-> Failed(message)]
        go(pc) == call @@ [pc |-> pc, outcome |-> pending]
    IN IF user = noUser THEN stop("Not authorized")
       ELSE IF op = "getCsvFiles" THEN go("findMany")
       ELSE IF op = "uploadCsvFile"
            THEN IF Len(arg) = 0 THEN stop("CSV file is empty")
                 ELSE IF DOMAIN arg[1] = {}
                      THEN stop("CSV file has no columns")
                      ELSE go("create")
       ELSE go("findUnique")

\* a request reaches the server and its operation is invoked
Invoke(op, user, arg) ==
    /\ Len(calls) < MaxOps
    /\ calls' = Append(calls, NewCall(op, user, arg))
    /\ UNCHANGED <<files, csvRows>>
    /\ frameOfServer

\* getCsvFiles: CsvFile.findMany({ where: { userId } })
FindMany(n) ==
    /\ Waiting(n, "findMany")
    /\ Proceed(n, "done",
               Returned({f \in files : f.userId = calls[n].user}))
    /\ UNCHANGED <<files, csvRows>>
    /\ frameOfServer

\* uploadCsvFile: CsvFile.create with its nested rows
Create(n) ==
    /\ Waiting(n, "create")
    /\ LET file == [id |-> FileIdOf(n), userId |-> calls[n].user,
                    rowCount |-> Len(calls[n].arg)]
       IN /\ files' = files \cup {file}
          /\ csvRows' = csvRows \cup
                {[id |-> RowIdOf(n, k - 1), csvFileId |-> file.id,
                  rowIndex |-> k - 1, rowData |-> calls[n].arg[k]] :
                   k \in 1..Len(calls[n].arg)}
          /\ Proceed(n, "done", Returned(file))
    /\ frameOfServer

\* getCsvFile / deleteCsvFile: CsvFile.findUnique with its rows, and the
\* checks made on what it found
FindUniqueFile_Mut(n) ==
    /\ Waiting(n, "findUnique")
    /\ calls[n].op \in {"getCsvFile", "deleteCsvFile"}
    /\ LET found == FileById(calls[n].arg)
       IN IF found = {}
          THEN Proceed(n, "done", Failed("File not found"))
          ELSE IF calls[n].op = "getCsvFile"
          THEN Proceed(n, "done",
                       Returned([file |-> CHOOSE f \in found : TRUE,
                                 rows |-> RowsOfFile(calls[n].arg)]))
          ELSE Proceed(n, "deleteMany", pending)
    /\ UNCHANGED <<files, csvRows>>
    /\ frameOfServer

FindUniqueFile(n) ==
    /\ Waiting(n, "findUnique")
    /\ calls[n].op \in {"getCsvFile", "deleteCsvFile"}
    /\ LET found == FileById(calls[n].arg)
       IN IF found = {}
          THEN Proceed(n, "done", Failed("File not found"))
          ELSE IF (CHOOSE f \in found : TRUE).userId # calls[n].user
          THEN Proceed(n, "done",
                       Failed(IF calls[n].op = "getCsvFile"
                              THEN "Not authorized to access this file"
                              ELSE "Not authorized to delete this file"))
          ELSE IF calls[n].op = "getCsvFile"
          THEN Proceed(n, "done",
                       Returned([file |-> CHOOSE f \in found : TRUE,
                                 rows |-> RowsOfFile(calls[n].arg)]))
          ELSE Proceed(n, "deleteMany", pending)
    /\ UNCHANGED <<files, csvRows>>
    /\ frameOfServer

\* updateCsvRow: CsvRow.findUnique with its csvFile, and the checks
FindUniqueRow(n) ==
    /\ Waiting(n, "findUnique")
    /\ calls[n].op = "updateCsvRow"
    /\ LET found == RowById(calls[n].arg)
       IN IF found = {}
          THEN Proceed(n, "done", Failed("Row not found"))
          ELSE IF \A f \in FileById((CHOOSE r \in found : TRUE).csvFileId) :
                     f.userId # calls[n].user
          THEN Proceed(n, "done", Failed("Not authorized to modify this row"))
          ELSE Proceed(n, "update", pending)
    /\ UNCHANGED <<files, csvRows>>
    /\ frameOfServer

\* updateCsvRow: CsvRow.update({ where: { id }, data: { rowData } })
Update(n) ==
    /\ Waiting(n, "update")
    /\ IF RowById(calls[n].arg) = {}
       THEN /\ Proceed(n, "done", Failed(RecordNotFound))
            /\ UNCHANGED csvRows
       ELSE /\ csvRows' = {IF r.id = calls[n].arg
                            THEN [r EXCEPT !.rowData = UpdatedData] ELSE r :
                              r \in csvRows}
            /\ Proceed(n, "done",
                       Returned([(CHOOSE r \in RowById(calls[n].arg) : TRUE)
                                   EXCEPT !.rowData = UpdatedData]))
    /\ UNCHANGED files
    /\ frameOfServer

\* deleteCsvFile: CsvRow.deleteMany({ where: { csvFileId } })
DeleteMany(n) ==
    /\ Waiting(n, "deleteMany")
    /\ csvRows' = csvRows \ RowsOfFile(calls[n].arg)
    /\ Proceed(n, "delete", pending)
    /\ UNCHANGED files
    /\ frameOfServer

\* deleteCsvFile: CsvFile.delete({ where: { id } })
Delete(n) ==
    /\ Waiting(n, "delete")
    /\ IF FileById(calls[n].arg) = {}
       THEN /\ Proceed(n, "done", Failed(RecordNotFound))
            /\ UNCHANGED files
       ELSE /\ files' = files \ FileById(calls[n].arg)
            /\ Proceed(n, "done",
                       Returned(CHOOSE f \in FileById(calls[n].arg) : TRUE))
    /\ UNCHANGED csvRows
    /\ frameOfServer

\* the ids a request can carry: the id of a file that an upload returned,
\* or an id that no file ever gets (that of a call which creates none)
Askable(n) ==
    /\ n \in 1..Len(calls)
    /\ calls[n].pc = "done"

InitOperations ==
    /\ rows = EditRows
    /\ InitState

NextOperations ==
    \/ \E u \in Callers : Invoke("getCsvFiles", u, null)
    \/ \E u \in Callers, n \in 1..MaxOps :
          Askable(n) /\ Invoke("getCsvFile", u, FileIdOf(n))
    \/ \E u \in Callers, rs \in UploadedRecords :
          Invoke("uploadCsvFile", u, rs)
    \/ \E u \in Callers, n \in 1..MaxOps :
          Askable(n) /\ Invoke("updateCsvRow", u, RowIdOf(n, 0))
    \/ \E u \in Callers, n \in 1..MaxOps :
          Askable(n) /\ Invoke("deleteCsvFile", u, FileIdOf(n))
    \/ \E n \in 1..MaxOps : FindMany(n)
    \/ \E n \in 1..MaxOps : Create(n)
    \/ \E n \in 1..MaxOps : FindUniqueFile(n)
    \/ \E n \in 1..MaxOps : FindUniqueRow(n)
    \/ \E n \in 1..MaxOps : Update(n)
    \/ \E n \in 1..MaxOps : DeleteMany(n)
    \/ \E n \in 1..MaxOps : Delete(n)

SpecOperations == InitOperations /\ [][NextOperations]_vars

----------------------------------------------------------------------------
(* The CsvManager page with its CsvFileList, shown to pageUser.  toasts    *)
(* holds the notifications in the order they were produced, each with the  *)
(* index of the confirmed deletion that produced it.  confirms holds the   *)
(* handleDeleteConfirm calls: the file, the deleteCsvFile call they wait   *)
(* for, and whether they have settled.                                     *)

pageUser == "u1"

frameOfViewer == UNCHANGED viewerVars

\* useQuery(getCsvFiles) hands over the answer of a getCsvFiles call
LoadFiles(n) ==
    /\ n \in 1..Len(calls)
    /\ calls[n].op = "getCsvFiles"
    /\ calls[n].user = pageUser
    /\ calls[n].outcome.ok
    /\ csvFiles' = calls[n].outcome.value
    /\ csvFiles' # csvFiles
    /\ UNCHANGED <<serverVars, deleteDialogOpen, fileToDelete, toasts, confirms>>
    /\ frameOfViewer

\* the Delete button of a listed file
handleDeleteClick(file) ==
    /\ file \in csvFiles
    /\ fileToDelete' = file
    /\ deleteDialogOpen' = TRUE
    /\ UNCHANGED <<serverVars, csvFiles, toasts, confirms>>
    /\ frameOfViewer

\* the dialog's onClose
CloseDialog ==
    /\ deleteDialogOpen
    /\ deleteDialogOpen' = FALSE
    /\ UNCHANGED <<serverVars, csvFiles, fileToDelete, toasts, confirms>>
    /\ frameOfViewer

\* the dialog's onConfirm: handleDeleteConfirm up to its await, through
\* handleDeleteFile up to its await of deleteCsvFile({ fileId })
handleDeleteConfirm ==
    /\ deleteDialogOpen
    /\ IF fileToDelete # null
       THEN /\ Len(confirms) < MaxConfirms
            /\ calls' = Append(calls,
                  NewCall("deleteCsvFile", pageUser, fileToDelete.id))
            /\ confirms' = Append(confirms,
                  [fileId |-> fileToDelete.id, call |-> Len(calls) + 1,
                   settled |-> FALSE])
            /\ UNCHANGED <<deleteDialogOpen, fileToDelete>>
       ELSE /\ deleteDialogOpen' = FALSE
            /\ fileToDelete' = null
            /\ UNCHANGED <<calls, confirms>>
    /\ UNCHANGED <<files, csvRows, csvFiles, toasts>>
    /\ frameOfViewer

Toast(kind, message, k) == [kind |-> kind, message |-> message, confirm |-> k]

\* the deleteCsvFile call of confirmed deletion k has settled:
\* handleDeleteFile resumes and returns, then handleDeleteConfirm resumes
SettleDelete(k) ==
    /\ k \in 1..Len(confirms)
    /\ ~ confirms[k].settled
    /\ calls[confirms[k].call].pc = "done"
    /\ toasts' = toasts \o
          <<IF calls[confirms[k].call].outcome.ok
            THEN Toast("success", "File deleted successfully", k)
            ELSE Toast("error", "Failed to delete file", k),
            Toast("success", "File deleted successfully", k)>>
    /\ confirms' = [confirms EXCEPT ![k].settled = TRUE]
    /\ deleteDialogOpen' = FALSE
    /\ fileToDelete' = null
    /\ UNCHANGED <<serverVars, csvFiles>>
    /\ frameOfViewer

NextManager ==
    \/ \E rs \in UploadedRecords : Invoke("uploadCsvFile", pageUser, rs)
    \/ Invoke("getCsvFiles", pageUser, null)
    \/ \E n \in 1..(MaxOps + MaxConfirms) : FindMany(n)
    \/ \E n \in 1..(MaxOps + MaxConfirms) : Create(n)
    \/ \E n \in 1..(MaxOps + MaxConfirms) : FindUniqueFile(n)
    \/ \E n \in 1..(MaxOps + MaxConfirms) : DeleteMany(n)
    \/ \E n \in 1..(MaxOps + MaxConfirms) : Delete(n)
    \/ \E n \in 1..(MaxOps + MaxConfirms) : LoadFiles(n)
    \/ \E file \in csvFiles : handleDeleteClick(file)
    \/ CloseDialog
    \/ handleDeleteConfirm
    \/ \E k \in 1..MaxConfirms : SettleDelete(k)

SpecManager == InitOperations /\ [][NextManager]_vars

----------------------------------------------------------------------------
(* The pipeline on exhaustively enumerated small datasets.                 *)

Values == {<<>>, <<"a">>, <<"A", "b">>}

\* the columns the rows of the small datasets have values for
DataColumns == {"name", "age"}

FieldMaps == UNION {[S -> Values] : S \in SUBSET DataColumns}

SmallDatasets ==
    UNION {{[i \in 1..n |-> [id |-> i, rowData |-> f[i]]] : f \in [1..n -> FieldMaps]} :
              n \in 1..MaxSmallRows}

InitPipeline ==
    /\ rows \in SmallDatasets
    /\ InitState

NextPipeline ==
    \/ \E t \in FilterTexts : SetFilterText(t)
    \/ \E c \in Range(columnHeaders) : handleSort(c)

SpecPipeline == InitPipeline /\ [][NextPipeline]_vars

----------------------------------------------------------------------------
(* Pagination claims, checked under Spec.                                  *)

\* C1 (as claimed): in every reachable state currentPage lies in
\* [1, max(1, totalPages)], totalPages being computed from the filtered rows.
C1_PageInRange ==
    /\ currentPage >= 1
    /\ currentPage <= Max(1, CeilDiv(Len(filteredRows), rowsPerPage))

\* C5 (as claimed): totalPages is the least number of pages of 10 rows that
\* hold the filtered rows, and at least 1 (1, not 0, when no row is left).
C5_TotalPagesAtLeastOne ==
    LET n == Len(filteredRows)
    IN /\ totalPages >= 1
       /\ totalPages * rowsPerPage >= n
       /\ (totalPages - 1) * rowsPerPage < Max(n, 1)

\* the last page of the current row set, 1 when there is no row
LastPage == Max(1, CeilDiv(Len(filteredRows), rowsPerPage))

\* C6 (as claimed): Previous on page 1 and Next on the last page leave
\* currentPage unchanged; elsewhere they move it by exactly one.
C6_NavigationStep ==
    [][/\ PreviousPage =>
            currentPage' = IF currentPage = 1 THEN 1 ELSE currentPage - 1
       /\ NextPage =>
            currentPage' = IF currentPage = LastPage THEN currentPage
                           ELSE currentPage + 1]_vars

RECURSIVE ConcatPages(_, _, _)
ConcatPages(rs, from, to) ==
    IF from > to THEN <<>>
    ELSE PageSlice(rs, from) \o ConcatPages(rs, from + 1, to)

\* C7: the page slices of pages 1..totalPages, concatenated in order, are
\* the sorted/filtered sequence itself, and no page holds more than 10 rows.
C7_PagesReconstruct ==
    /\ ConcatPages(sortedRows, 1, totalPages) = sortedRows
    /\ \A p \in 1..totalPages : Len(PageSlice(sortedRows, p)) <= rowsPerPage

\* C7 witness: three pages of sorted rows, the last one partial and shown
C7_Witness ==
    /\ totalPages = 3
    /\ Len(sortedRows) % rowsPerPage # 0
    /\ sortConfig # null
    /\ currentPage = 3
    /\ Len(paginatedRows) = Len(sortedRows) % rowsPerPage

----------------------------------------------------------------------------
(* Filter and sort claims, checked under SpecPipeline.                     *)

\* s occurs in v, both lower-cased
ContainsIgnoringCase(v, s) ==
    \E i \in 1..(Len(v) + 1) : \E j \in (i - 1)..Len(v) :
        SubSeq(toLowerCase(v), i, j) = toLowerCase(s)

\* the dataset positions of the rows with a matching field value
MatchingPositions ==
    {i \in 1..Len(rows) :
        \E k \in DOMAIN rows[i].rowData :
            ContainsIgnoringCase(rows[i].rowData[k], filterText)}

\* the j-th smallest element of a set of positions
NthOf(S, j) == CHOOSE i \in S : Cardinality({k \in S : k <= i}) = j

\* C8: the filtered sequence is exactly the rows with a field value that
\* contains the filter text ignoring case, in dataset order; a column name
\* that contains the text does not make a row match.
C8_FilterExact ==
    /\ Len(filteredRows) = Cardinality(MatchingPositions)
    /\ \A j \in 1..Len(filteredRows) :
          filteredRows[j] = rows[NthOf(MatchingPositions, j)]

\* C8 witness: the text "a" (part of both column names) keeps a row with the
\* value "Ab" and drops an earlier row that has fields but no such value
C8_Witness ==
    /\ filterText = <<"a">>
    /\ Len(rows) = 2
    /\ DOMAIN rows[1].rowData = {"name", "age"}
    /\ ~ RowMatches(rows[1], filterText)
    /\ "name" \in DOMAIN rows[2].rowData
    /\ rows[2].rowData["name"] = <<"A", "b">>
    /\ filteredRows = <<rows[2]>>

\* C9 (as claimed): with empty filter text the filtered sequence is the whole
\* dataset in order, rows with an empty field map included.
C9_EmptyFilterKeepsAll ==
    filterText = <<>> => filteredRows = rows

\* the position of a row in the filtered sequence (row ids are unique)
FilteredPos(r) == CHOOSE i \in 1..Len(filteredRows) : filteredRows[i].id = r.id

\* the sort column's value of a row, the empty string when it has none
SortValue(r) ==
    IF sortConfig.key \in DOMAIN r.rowData THEN r.rowData[sortConfig.key] ELSE <<>>

\* C10: without sortConfig the sorted sequence is the filtered one; with it,
\* it is a permutation of the filtered sequence, ordered by the sort column's
\* value in the given direction, equal values keeping their filtered order.
C10_SortStable ==
    IF sortConfig = null THEN sortedRows = filteredRows
    ELSE /\ Len(sortedRows) = Len(filteredRows)
         /\ Range(sortedRows) = Range(filteredRows)
         /\ \A i, j \in 1..Len(sortedRows) :
               i < j =>
                 LET c == localeCompare(SortValue(sortedRows[i]), SortValue(sortedRows[j]))
                 IN /\ sortConfig.direction = "asc" => c <= 0
                    /\ sortConfig.direction = "desc" => c >= 0
                    /\ c = 0 => FilteredPos(sortedRows[i]) < FilteredPos(sortedRows[j])

\* C10 witness: a descending sort on "name" of two rows that tie, one having
\* no name and the other an empty name
C10_Witness ==
    /\ sortConfig # null
    /\ sortConfig = [key |-> "name", direction |-> "desc"]
    /\ Len(sortedRows) = 2
    /\ "name" \notin DOMAIN sortedRows[1].rowData
    /\ "name" \in DOMAIN sortedRows[2].rowData
    /\ sortedRows[2].rowData["name"] = <<>>
    /\ sortedRows[1].id < sortedRows[2].id

----------------------------------------------------------------------------
(* Edit claims, checked under SpecEdit.                                    *)

\* the row-update invocations made for edit e so far, in the next state
CallsOfEdit(e) == {n \in 1..Len(updateCalls') : updateCalls'[n].edit = e}

\* a commit is triggered by Enter or by the loss of focus
CommitTriggered == PressEnter \/ BlurInput

\* C2 (as claimed, the return to Idle being C3's formula): after a commit
\* trigger the edit has exactly one row-update invocation, made with the
\* edited row's id and the row's fields overlaid with the pending value,
\* also when both Enter and the loss of focus trigger the commit.
C2_ExactlyOneUpdatePerCommit ==
    [][CommitTriggered =>
         /\ Cardinality(CallsOfEdit(editSeq)) = 1
         /\ \A n \in CallsOfEdit(editSeq) :
               /\ updateCalls'[n].rowId = editingCell.rowId
               /\ \E i \in 1..Len(rows) :
                     /\ rows[i].id = editingCell.rowId
                     /\ DOMAIN updateCalls'[n].newData =
                           DOMAIN rows[i].rowData \cup {editingCell.column}
                     /\ \A k \in DOMAIN updateCalls'[n].newData :
                           updateCalls'[n].newData[k] =
                              IF k = editingCell.column THEN editValue
                              ELSE rows[i].rowData[k]]_vars

\* C3 (as claimed): a commit takes the state machine from Editing to Idle at
\* once, whatever becomes of the row update.
C3_IdleOnCommit ==
    [][CommitTriggered => editingCell' = null]_vars

\* C4 (as claimed): when an edit begins on a cell while another cell is in
\* Editing, no row update has been invoked for the edit given up, and the
\* pending value is the newly selected cell's own current value.
C4_NewEditDiscardsOld ==
    [][(editingCell # null /\ editingCell' # null /\ editingCell' # editingCell) =>
         /\ \A n \in 1..Len(updateCalls') : updateCalls'[n].edit # editSeq
         /\ \E i \in 1..Len(rows) :
               /\ rows[i].id = editingCell'.rowId
               /\ editValue' = IF editingCell'.column \in DOMAIN rows[i].rowData
                                THEN rows[i].rowData[editingCell'.column]
                                ELSE <<>>]_vars

----------------------------------------------------------------------------
(* Further sort claims, checked under SpecPipeline.                        *)

\* C11: sorting the sorted sequence again with the same sortConfig gives
\* the sorted sequence itself.
C11_SortIdempotent ==
    ApplySort(sortedRows, sortConfig) = sortedRows

\* C11 witness: a sort that moved a row
C11_Witness ==
    /\ sortConfig # null
    /\ Len(sortedRows) = 2
    /\ sortedRows # filteredRows

\* C12: sort on column c gives (c, desc) exactly when the sortConfig was
\* (c, asc), and (c, asc) in every other case.
C12_SortToggle ==
    [][\A c \in Range(columnHeaders) :
         handleSort(c) =>
            /\ sortConfig'.key = c
            /\ sortConfig'.direction \in {"asc", "desc"}
            /\ sortConfig'.direction = "desc" <=>
                  sortConfig = [key |-> c, direction |-> "asc"]]_vars

\* C12 witness: a column sorted descending after another column was sorted
C12_Witness ==
    /\ sortConfig = [key |-> "age", direction |-> "desc"]
    /\ Len(rows) = 2
    /\ sortedRows # filteredRows

----------------------------------------------------------------------------
(* Column claims, checked under SpecColumns.                               *)

\* a valid position of the current columnOrder (0-based)
ValidIndex(i) == i >= 0 /\ i < Len(columnOrder)

\* a sequence without its element at 1-based position i
Without(s, i) == SubSeq(s, 1, i - 1) \o SubSeq(s, i + 1, Len(s))

\* C13 (as claimed): after any toggleColumn and reorderColumn commands, with
\* any index arguments, visibleColumns is a subset of columnOrder and
\* columnOrder is a permutation of columnHeaders.
C13_ColumnInvariant ==
    /\ Range(visibleColumns) \subseteq Range(columnOrder)
    /\ Len(columnOrder) = Len(columnHeaders)
    /\ Range(columnOrder) = Range(columnHeaders)

\* C14 (as claimed): a reorderColumn with an index that is no valid position
\* of columnOrder fails and leaves columnOrder unchanged.
C14_InvalidIndexRejected ==
    [][\A d \in ReorderIndices, p \in ReorderIndices :
         (handleColumnReorder(d, p) /\ ~ (ValidIndex(d) /\ ValidIndex(p)))
            => columnOrder' = columnOrder]_vars

\* C15: with valid indices the element formerly at fromIndex is at toIndex
\* afterwards and the other elements are in their former relative order
\* (so the result is a permutation of columnOrder).
C15_ReorderMoves ==
    [][\A d \in ReorderIndices, p \in ReorderIndices :
         (handleColumnReorder(d, p) /\ ValidIndex(d) /\ ValidIndex(p))
            => /\ Len(columnOrder') = Len(columnOrder)
               /\ columnOrder'[p + 1] = columnOrder[d + 1]
               /\ Without(columnOrder', p + 1) = Without(columnOrder, d + 1)]_vars

\* C15 witness: the first of three columns moved to the last position
C15_Witness ==
    /\ columnOrder = <<"age", "city", "name">>
    /\ visibleColumns = columnHeaders

\* C16: toggleColumn(name) removes name from visibleColumns if it is there
\* and adds it otherwise (once), changes no other column's visibility and
\* leaves columnOrder alone; the last visible column can be hidden.
C16_ToggleFlips ==
    [][\A c \in Range(columnHeaders) \cup {undefined} :
         handleColumnToggle(c) =>
            /\ Range(visibleColumns') =
                  IF c \in Range(visibleColumns)
                  THEN Range(visibleColumns) \ {c}
                  ELSE Range(visibleColumns) \cup {c}
            /\ Cardinality(Range(visibleColumns')) = Len(visibleColumns')
            /\ columnOrder' = columnOrder]_vars

\* C16 witness: every column hidden, the last visible one included
C16_Witness ==
    /\ visibleColumns = <<>>
    /\ columnOrder = columnHeaders

\* the positions of columnOrder that hold a visible column
VisiblePositions ==
    {i \in 1..Len(columnOrder) : columnOrder[i] \in Range(visibleColumns)}

\* C17: the rendered columns are the visible elements of columnOrder, in
\* columnOrder's order, whatever the order they were made visible in.
C17_RenderedInColumnOrder ==
    /\ Len(renderedColumns) = Cardinality(VisiblePositions)
    /\ \A j \in 1..Len(renderedColumns) :
          renderedColumns[j] = columnOrder[NthOf(VisiblePositions, j)]

\* C17 witness: "name" hidden and shown again is last in visibleColumns and
\* still rendered first
C17_Witness ==
    /\ visibleColumns = <<"age", "city", "name">>
    /\ columnOrder = columnHeaders
    /\ renderedColumns = columnHeaders

----------------------------------------------------------------------------
(* Further edit claims, checked under SpecEdit.                            *)

\* C18: selecting a cell from Idle gives Editing of that row and column with
\* the row's current value for the column as pending value, the empty
\* string when the row has no value for it.
C18_BeginEditFromIdle ==
    [][\A i \in 1..Len(rows), c \in Range(columnHeaders) :
         (editingCell = null /\ ClickCell(i, c, FALSE)) =>
            /\ editingCell' # null
            /\ editingCell'.rowId = paginatedRows[i].id
            /\ editingCell'.column = c
            /\ \E n \in 1..Len(rows) :
                  /\ rows[n].id = editingCell'.rowId
                  /\ editValue' = IF c \in DOMAIN rows[n].rowData
                                   THEN rows[n].rowData[c] ELSE <<>>]_vars

\* C18 witness: the first edit, begun on a cell the row has no value for
C18_Witness ==
    /\ editSeq = 1
    /\ editingCell = [rowId |-> 1, column |-> "age"]
    /\ "age" \notin DOMAIN rows[1].rowData
    /\ editValue = <<>>
    /\ updateCalls = <<>>

----------------------------------------------------------------------------
(* Selection claims, checked under SpecSelect.                             *)

\* the row ids of the page shown
CurrentPageIds == {sortedRows[i].id :
                     i \in {k \in 1..Len(sortedRows) :
                              (k - 1) \div rowsPerPage = currentPage - 1}}

\* C20 (as claimed): select-all adds the current page's row ids, clear
\* removes them, and the ids selected on other pages stay selected.
C20_BulkSelectionPageScoped ==
    [][SelectAllChange =>
         /\ selectedRows' \ CurrentPageIds = selectedRows \ CurrentPageIds
         /\ \/ CurrentPageIds \subseteq selectedRows'
            \/ selectedRows' \cap CurrentPageIds = {}]_vars

----------------------------------------------------------------------------
(* The frame of the commands, checked under SpecCommands.                  *)

\* C19: no command changes the local rows; they change only when the
\* hosting page hands over refetched rows.  In particular a resolved update
\* leaves the rows as they were.
C19_CommandsKeepRows ==
    [][(~ \E n \in 1..Len(updateCalls) : RefetchAfterUpdate(n))
          => rows' = rows]_vars

\* an update of row 1's name to "B" has resolved and the rows are still the
\* ones first shown
C19_Witness ==
    /\ rows = CommandRows
    /\ \E n \in 1..Len(updateCalls) :
          /\ updateCalls[n].status = "ok"
          /\ updateCalls[n].rowId = 1
          /\ updateCalls[n].newData["name"] = <<"B">>
          /\ rows[1].rowData["name"] = <<"b">>

\* C21 (as claimed): the select-all checkbox is shown checked exactly when
\* every row of the current page is selected, whatever is selected on the
\* other pages.
C21_SelectAllReflectsPage ==
    SelectAllChecked <=> (CurrentPageIds \subseteq selectedRows)

----------------------------------------------------------------------------
(* Edits that overlap an update in flight, checked under SpecEdit.         *)

\* C25 (as claimed): when the update of an earlier edit settles while a later
\* edit is in Editing, the later edit's cell and pending value stay as they
\* are and the state is not forced to Idle.
C25_LaterEditSurvivesCompletion ==
    [][\A n \in 1..Len(updateCalls), ok \in BOOLEAN :
         (/\ CompleteUpdate(n, ok)
          /\ editingCell # null
          /\ updateCalls[n].edit < editSeq
          /\ editingCell # [rowId |-> updateCalls[n].rowId,
                            column |-> updateCalls[n].column]) =>
            /\ editingCell' = editingCell
            /\ editValue' = editValue]_vars

\* C26 (as claimed): a click inside the cell being edited leaves the pending
\* value as it is; while the cell stays in Editing the pending value changes
\* only by typing.
C26_ReselectKeepsPendingValue ==
    [][/\ \A i \in 1..Len(rows), c \in Range(columnHeaders) :
            ClickCell(i, c, TRUE) => editValue' = editValue
       /\ (editingCell # null /\ editingCell' = editingCell
              /\ editValue' # editValue) =>
             \E v \in TypedValues : TypeValue(v)]_vars

----------------------------------------------------------------------------
(* The server operations, checked under SpecOperations.                    *)

\* the call that takes the step: the one invoked or moved on by it
Stepping(n) ==
    /\ n \in 1..Len(calls')
    /\ n \in 1..Len(calls) => calls'[n] # calls[n]

\* C22: an operation invoked without a user ends at once with
\* 'Not authorized', has made no database call, and its invocation leaves
\* the stored files and rows as they are.
C22_NoUserNoAccess ==
    [][\A n \in 1..Len(calls') :
         calls'[n].user = noUser =>
            /\ calls'[n].pc = "done"
            /\ calls'[n].outcome = Failed("Not authorized")
            /\ calls'[n].accesses = 0
            /\ Stepping(n) => UNCHANGED <<files, csvRows>>]_vars

\* each of three operations was invoked without a user, the last one a
\* delete of a stored file, which is still stored with its row
C22_Witness ==
    /\ Len(calls) >= 3
    /\ calls[1].op = "uploadCsvFile" /\ calls[1].outcome.ok
    /\ calls[2].op = "updateCsvRow" /\ calls[2].user = noUser
    /\ calls[2].arg = RowIdOf(1, 0)
    /\ calls[3].op = "deleteCsvFile" /\ calls[3].user = noUser
    /\ calls[3].arg = FileIdOf(1)
    /\ FileById(FileIdOf(1)) # {}
    /\ \A r \in RowsOfFile(FileIdOf(1)) : r.rowData # UpdatedData

NotFoundErrors == {"File not found", "Row not found", RecordNotFound}

NotAuthorizedErrors == {"Not authorized to access this file",
                        "Not authorized to modify this row",
                        "Not authorized to delete this file"}

\* the owner of a stored file, and of a stored row through its file
OwnersOfFile(id) == {f.userId : f \in FileById(id)}
OwnersOfRow(id) == UNION {OwnersOfFile(r.csvFileId) : r \in RowById(id)}

\* the target of call n is not stored / is stored for someone else
TargetOwners(n) ==
    IF calls[n].op = "updateCsvRow" THEN OwnersOfRow(calls[n].arg)
    ELSE OwnersOfFile(calls[n].arg)

OnTarget(n) ==
    /\ n \in 1..Len(calls)
    /\ calls[n].op \in {"getCsvFile", "updateCsvRow", "deleteCsvFile"}
    /\ calls[n].pc # "done"
    /\ calls'[n] # calls[n]

\* the files a returned value shows
FilesShown(call) ==
    IF ~ call.outcome.ok THEN {}
    ELSE IF call.op = "getCsvFiles" THEN call.outcome.value
    ELSE IF call.op = "getCsvFile" THEN {call.outcome.value.file}
    ELSE IF call.op = "updateCsvRow"
         THEN {f \in files : f.id = call.outcome.value.csvFileId}
    ELSE {call.outcome.value}

\* C23: a step of getCsvFile, updateCsvRow or deleteCsvFile whose target is
\* not stored fails with a not-found error, one whose target belongs to
\* someone else fails with a not-authorized error, and both leave the
\* stored files and rows as they are; every step changes only files and
\* rows of the user who takes it, and every value returned shows only
\* files of the user it is returned to.
C23_UsersIsolated ==
    [][\A n \in 1..Len(calls') :
         /\ (OnTarget(n) /\ TargetOwners(n) = {}) =>
               /\ UNCHANGED <<files, csvRows>>
               /\ \/ calls'[n].outcome \in {Failed(e) : e \in NotFoundErrors}
                  \/ calls[n].pc = "deleteMany"
         /\ (OnTarget(n) /\ TargetOwners(n) # {}
                /\ calls[n].user \notin TargetOwners(n)) =>
               /\ UNCHANGED <<files, csvRows>>
               /\ calls'[n].outcome \in {Failed(e) : e \in NotAuthorizedErrors}
         /\ Stepping(n) =>
               /\ \A f \in (files \ files') \cup (files' \ files) :
                     f.userId = calls'[n].user
               /\ \A r \in (csvRows \ csvRows') \cup (csvRows' \ csvRows) :
                     \A f \in files \cup files' :
                        f.id = r.csvFileId => f.userId = calls'[n].user
               /\ \A f \in FilesShown(calls'[n]) : f.userId = calls'[n].user]_vars

\* u1's file is stored with its row as uploaded after u2 asked for it and
\* tried to delete it
C23_Witness ==
    /\ Len(calls) >= 3
    /\ calls[1].op = "uploadCsvFile" /\ calls[1].user = "u1"
    /\ calls[2] = [op |-> "getCsvFile", user |-> "u2", arg |-> FileIdOf(1),
                   accesses |-> 1, pc |-> "done",
                   outcome |-> Failed("Not authorized to access this file")]
    /\ calls[3] = [op |-> "deleteCsvFile", user |-> "u2", arg |-> FileIdOf(1),
                   accesses |-> 1, pc |-> "done",
                   outcome |-> Failed("Not authorized to delete this file")]
    /\ OwnersOfFile(FileIdOf(1)) = {"u1"}
    /\ RowsOfFile(FileIdOf(1)) # {}

\* C24 (as claimed): after a deleteCsvFile returned, neither the file nor a
\* row of it is stored, and no getCsvFile returned the file without the
\* rows it was uploaded with.
C24_DeleteCascadesAtomically ==
    \A n \in 1..Len(calls) :
       /\ (calls[n].op = "deleteCsvFile" /\ calls[n].outcome.ok) =>
             /\ FileById(calls[n].arg) = {}
             /\ RowsOfFile(calls[n].arg) = {}
       /\ (calls[n].op = "getCsvFile" /\ calls[n].outcome.ok) =>
             Cardinality(calls[n].outcome.value.rows)
                = calls[n].outcome.value.file.rowCount

----------------------------------------------------------------------------
(* The notifications of a confirmed deletion, checked under SpecManager.   *)

ToastsOf(k) == {i \in 1..Len(toasts) : toasts[i].confirm = k}

\* C27 (as claimed): a settled confirmed deletion has produced exactly one
\* notification, and a success notification only if its deleteCsvFile call
\* succeeded.
C27_OneTruthfulNotification ==
    \A k \in 1..Len(confirms) :
       confirms[k].settled =>
          /\ Cardinality(ToastsOf(k)) = 1
          /\ \A i \in ToastsOf(k) :
                toasts[i].kind = "success" =>
                   calls[confirms[k].call].outcome.ok

====
